---- MODULE Spec2Model ----
(***************************************************************************)
(* StudyRAG: the ingestion pipeline, the catalog, the scope navigation     *)
(* commands, the retriever tool and the ASK/ACT agent loop of              *)
(* src/StudyRAGSystem.py, as one state machine.                            *)
(*                                                                         *)
(* The Index (the Chroma collection) is a sequence of chunk groups in      *)
(* insertion order: one group stands for n consecutive chunks that carry   *)
(* the same metadata (the chunks cut from one PDF in one run differ only   *)
(* in page number and text, which no operation below branches on).         *)
(***************************************************************************)
EXTENDS Integers, Sequences, FiniteSets, TLC

VARIABLES
    rawData,          \* RAW_DATA_DIR: [dirs: semester directories, pdfs: path -> PDF state]
    index,            \* the Chroma collection "study_materials"
    ingestLog,        \* cache/ingestion_log.json: <<>> or <<the last run summary>>
    lastRun,          \* history: what the last ingest_all call did
    runs,             \* history: number of ingest_all calls so far
    messages,         \* StudyRAGInterface.state['messages']
    active_semester,  \* StudyRAGInterface.state['active_semester'] ("None" = None)
    active_subject,   \* StudyRAGInterface.state['active_subject']  ("None" = None)
    active_books,     \* StudyRAGInterface.state['active_books'] (a list)
    cache,            \* Catalog._cache: <<>> for None, else <<the cached metadata list>>
    lastCommand,      \* history: the last navigation command and the metadata it listed from
    lastListing,      \* history: the last call of a Catalog list method and what it returned
    pc,               \* nav / chat (at a prompt), page (the Streamlit chat page), llm /
                      \* retriever_agent / end (inside study_agent.invoke), crashed (an
                      \* exception left the program)
    caller,           \* what runs the invoke: "ask", "chat" or "streamlit"
    gstate,           \* the graph's AgentState during an invoke
    steps,            \* super-steps the running invoke has executed
    current_state_ref,\* build_study_agent's current_state_ref['state']: <<>> for None, else <<state>>
    queries,          \* history: number of chat queries started
    lastQuery,        \* history: what the last query started from, how it ended, and
                      \* the requests it has sent while it runs
    searches,         \* history: every retriever_tool call: filter, Index outcome, returned text
    writers,          \* ingest_all calls running side by side, each in its own process:
                      \* where each is and the existing_books it read
    conversations     \* sessions of one process that share the compiled agent: where
                      \* each one's invoke is, its scope, the filters its tool calls used

vars == <<rawData, index, ingestLog, lastRun, runs, messages, active_semester,
          active_subject, active_books, cache, lastCommand, lastListing, pc, caller, gstate, steps,
          current_state_ref, queries, lastQuery, searches, writers, conversations>>

sharingVars == <<writers, conversations>>
ingestVars == <<rawData, index, ingestLog, lastRun, runs>>
scopeVars == <<active_semester, active_subject, active_books>>
agentVars == <<pc, caller, gstate, steps, current_state_ref, queries, lastQuery, searches>>

(***************************************************************************)
(* Bounds of the model.                                                    *)
(***************************************************************************)
MaxRuns == 2          \* ingest_all calls explored
MaxWriters == 2       \* ingest_all calls running side by side
MaxConversations == 2 \* sessions sharing one compiled agent
MaxQueries == 2       \* questions put to the agent in one session
MaxBooks == 2         \* books selected into a scope
\* The graph is compiled and invoked without a config, so LangGraph's default
\* recursion_limit (25 super-steps) is the cap in force; the model runs with a
\* smaller cap, the loop being the same at every step.
RecursionLimit == 3
BigPdf == 1000        \* chunk yield of the large textbook

(***************************************************************************)
(* Program constants.                                                      *)
(***************************************************************************)
GET_LIMIT == 1000     \* collection.get(limit=1000)
TOP_K == 5            \* similarity_search(query, k=5)
RAW_DATA_DIR == "raw_data"

None == "None"

(***************************************************************************)
(* The content source: raw_data/semester/subject/book/*.pdf.  A path is    *)
(* <<semester, subject, book directory, file stem>>.                       *)
(***************************************************************************)
SemesterOrder == <<"Y3S2", "Y2S1">>
PathOrder ==
    << <<"Y3S2", "ML", "TextbookA", "ml_notes">>,
       <<"Y3S2", "Finance", "report1", "q3_report">>,
       <<"Y2S1", "ML", "TextbookB", "intro_ml">> >>

Range(s) == {s[i] : i \in DOMAIN s}
Semesters == Range(SemesterOrder)
PdfPaths == Range(PathOrder)

\* A PDF is absent, unreadable, or yields a number of chunks when loaded and split.
Absent == [kind |-> "absent", chunks |-> 0]
Corrupt == [kind |-> "corrupt", chunks |-> 0]
Readable(n) == [kind |-> "ok", chunks |-> n]
PdfStates == {Absent, Corrupt} \cup {Readable(n) : n \in {0, 1, BigPdf}}

RawDataStates ==
    {r \in [dirs : SUBSET Semesters, pdfs : [PdfPaths -> PdfStates]] :
        \A p \in PdfPaths : r.pdfs[p] # Absent => p[1] \in r.dirs}

\* len(...) of a list of chunks held as groups.
RECURSIVE TotalChunks(_)
TotalChunks(idx) == IF idx = <<>> THEN 0 ELSE Head(idx).n + TotalChunks(Tail(idx))

RECURSIVE Flatten(_)
Flatten(ss) == IF ss = <<>> THEN <<>> ELSE Head(ss) \o Flatten(Tail(ss))

(***************************************************************************)
(* IngestionPipeline.scan_library                                          *)
(***************************************************************************)
BookInfo(p) ==
    [semester |-> p[1], subject |-> p[2], book_id |-> p[3], book_title |-> p[4],
     pdf_path |-> <<RAW_DATA_DIR>> \o p, source_path |-> p]

InSemester(raw, s, p) == p[1] = s /\ raw.pdfs[p] # Absent

\* library_structure: one entry per semester directory, each with its list of books.
scan_library(raw) ==
    LET dirs == SelectSeq(SemesterOrder, LAMBDA s : s \in raw.dirs)
        books(s) == SelectSeq(PathOrder, LAMBDA p : InSemester(raw, s, p))
    IN  [i \in 1..Len(dirs) |->
            [semester |-> dirs[i],
             books |-> [j \in 1..Len(books(dirs[i])) |-> BookInfo(books(dirs[i])[j])]]]

LibraryBooks(library) == Flatten([i \in 1..Len(library) |-> library[i].books])

(***************************************************************************)
(* IngestionPipeline.get_existing_books_in_vectorstore: the source paths   *)
(* among the first GET_LIMIT items of the collection; the empty set when   *)
(* the read raises.                                                        *)
(***************************************************************************)
ChunksBefore(idx, j) == TotalChunks(SubSeq(idx, 1, j - 1))

get_existing_books_in_vectorstore(idx, readOk) ==
    IF ~readOk THEN {}
    ELSE {idx[j].source_path : j \in {k \in 1..Len(idx) : ChunksBefore(idx, k) < GET_LIMIT}}

(***************************************************************************)
(* IngestionPipeline.ingest_pdf: the chunks of one book, each stamped with *)
(* the book's metadata; nothing when the file is missing or unreadable.    *)
(* "source" is the key PyPDFLoader sets on every page it loads.            *)
(***************************************************************************)
\* A stamping that files the title under book_id.
PageMetadata_TitleAsId(book_info, loaded_from) ==
    [source |-> loaded_from,
     semester |-> book_info.semester,
     subject |-> book_info.subject,
     book_id |-> book_info.book_title,
     book_title |-> book_info.book_title,
     source_path |-> book_info.source_path]

PageMetadata(book_info, loaded_from) ==
    [source |-> loaded_from,
     semester |-> book_info.semester,
     subject |-> book_info.subject,
     book_id |-> book_info.book_id,
     book_title |-> book_info.book_title,
     source_path |-> book_info.source_path]

ingest_pdf(raw, book_info) ==
    LET pdf == raw.pdfs[SubSeq(book_info.pdf_path, 2, Len(book_info.pdf_path))]
    IN  IF pdf.kind = "absent" THEN <<>>
        ELSE IF pdf.kind = "corrupt" THEN <<>>
        ELSE IF pdf.chunks = 0 THEN <<>>
        ELSE << PageMetadata(book_info, book_info.pdf_path) @@ [n |-> pdf.chunks] >>

(***************************************************************************)
(* IngestionPipeline.ingest_all, the loop over the library: the chunks     *)
(* accumulated and the two counters.  skipped, loaded and failed are       *)
(* history: the source paths the loop skipped, handed to ingest_pdf, and   *)
(* saw ingest_pdf print an error for.                                      *)
(***************************************************************************)
NoBooks ==
    [all_chunks |-> <<>>, processed_count |-> 0, skipped_count |-> 0,
     skipped |-> <<>>, loaded |-> <<>>, failed |-> <<>>]

\* ingest_pdf caught an exception of the loader or the splitter.
LoadFails(raw, book) == raw.pdfs[book.source_path].kind = "corrupt"

\* A loop that a failed load ends.
RECURSIVE ProcessBooks_StopAtFailure(_, _, _, _)
ProcessBooks_StopAtFailure(raw, books, force_reingest, existing_books) ==
    IF books = <<>> THEN NoBooks
    ELSE
        LET book == Head(books)
            rest == ProcessBooks_StopAtFailure(raw, Tail(books), force_reingest, existing_books)
        IN  IF ~force_reingest /\ book.source_path \in existing_books
            THEN [rest EXCEPT !.skipped_count = @ + 1,
                              !.skipped = <<book.source_path>> \o @]
            ELSE IF LoadFails(raw, book)
            THEN [NoBooks EXCEPT !.loaded = <<book.source_path>>,
                                 !.failed = <<book.source_path>>]
            ELSE
                LET chunks == ingest_pdf(raw, book)
                IN  IF chunks # <<>>
                    THEN [rest EXCEPT !.all_chunks = chunks \o @,
                                      !.processed_count = @ + 1,
                                      !.loaded = <<book.source_path>> \o @]
                    ELSE [rest EXCEPT !.loaded = <<book.source_path>> \o @]

RECURSIVE ProcessBooks(_, _, _, _)
ProcessBooks(raw, books, force_reingest, existing_books) ==
    IF books = <<>> THEN NoBooks
    ELSE
        LET book == Head(books)
            rest == ProcessBooks(raw, Tail(books), force_reingest, existing_books)
        IN  IF ~force_reingest /\ book.source_path \in existing_books
            THEN [rest EXCEPT !.skipped_count = @ + 1,
                              !.skipped = <<book.source_path>> \o @]
            ELSE
                LET chunks == ingest_pdf(raw, book)
                    seen == [rest EXCEPT
                                !.loaded = <<book.source_path>> \o @,
                                !.failed = IF LoadFails(raw, book)
                                           THEN <<book.source_path>> \o @ ELSE @]
                IN  IF chunks # <<>>
                    THEN [seen EXCEPT !.all_chunks = chunks \o @,
                                      !.processed_count = @ + 1]
                    ELSE seen

\* log_data, without its timestamp.
RunSummary(processed_count, skipped_count, all_chunks, library) ==
    [books_processed |-> processed_count,
     books_skipped |-> skipped_count,
     total_chunks |-> TotalChunks(all_chunks),
     library_structure |-> library]

\* A run that returns before its loop.
EarlyReturn(idx, log, why) ==
    [index |-> idx, log |-> log, ended |-> why, added |-> <<>>, skipped |-> <<>>,
     loaded |-> <<>>, failed |-> <<>>, writes |-> 0, completion |-> <<>>]

\* A handler of the failed write that goes on to the summary and the log.
WriteFailed_StillLogs(idx, log, p, summary) ==
    [index |-> idx, log |-> <<summary>>, ended |-> "write_failed", added |-> <<>>,
     skipped |-> p.skipped, loaded |-> p.loaded, failed |-> p.failed, writes |-> 1,
     completion |-> <<summary>>]

\* add_documents raised: the error is printed and the run returns.
WriteFailed(idx, log, p, summary) ==
    [index |-> idx, log |-> log, ended |-> "write_failed", added |-> <<>>,
     skipped |-> p.skipped, loaded |-> p.loaded, failed |-> p.failed, writes |-> 1,
     completion |-> <<>>]

\* The run from its write on: add_documents once when there are chunks, then the
\* summary on screen, then the log file (logOk: open(log_file, 'w') succeeds).
WriteAndLog(idx, log, p, summary, writeOk, logOk) ==
    IF p.all_chunks # <<>> /\ ~writeOk
    THEN WriteFailed(idx, log, p, summary)
    ELSE [index |-> idx \o p.all_chunks,
          log |-> IF logOk THEN <<summary>> ELSE log,
          ended |-> IF logOk THEN "complete" ELSE "log_failed",
          added |-> p.all_chunks,
          skipped |-> p.skipped, loaded |-> p.loaded, failed |-> p.failed,
          writes |-> IF p.all_chunks # <<>> THEN 1 ELSE 0,
          completion |-> <<summary>>]

\* What one call of ingest_all does, given how the Index and the file system
\* answer.  CACHE_DIR is not created by the call: the log is written only when
\* the directory is there.
IngestAllResult(raw, idx, log, force_reingest, openOk, readOk, writeOk, logOk) ==
    LET library == scan_library(raw)
        existing_books ==
            IF ~force_reingest THEN get_existing_books_in_vectorstore(idx, readOk) ELSE {}
        p == ProcessBooks(raw, LibraryBooks(library), force_reingest, existing_books)
        summary == RunSummary(p.processed_count, p.skipped_count, p.all_chunks, library)
    IN  IF library = <<>> THEN EarlyReturn(idx, log, "no_books")
        ELSE IF ~openOk THEN EarlyReturn(idx, log, "open_failed")
        ELSE WriteAndLog(idx, log, p, summary, writeOk, logOk)

\* The record of a run.
RunRecord(via, force_reingest, readOk, r) ==
    [via |-> via, force |-> force_reingest, ended |-> r.ended,
     readOk |-> force_reingest \/ readOk,
     before |-> index, logBefore |-> ingestLog, added |-> r.added,
     skipped |-> r.skipped, loaded |-> r.loaded, failed |-> r.failed,
     writes |-> r.writes, completion |-> r.completion]

ingest_all(force_reingest) ==
    /\ runs < MaxRuns
    /\ \E openOk \in BOOLEAN, readOk \in BOOLEAN, writeOk \in BOOLEAN, logOk \in BOOLEAN :
        LET r == IngestAllResult(rawData, index, ingestLog, force_reingest,
                                 openOk, readOk, writeOk, logOk)
        IN  /\ index' = r.index
            /\ ingestLog' = r.log
            /\ lastRun' = RunRecord("ingest_all", force_reingest, readOk, r)
    /\ runs' = runs + 1
    /\ UNCHANGED <<rawData, messages, cache, lastCommand, lastListing>>
    /\ UNCHANGED scopeVars
    /\ UNCHANGED agentVars
    /\ UNCHANGED sharingVars

IngestNew == ingest_all(FALSE)
IngestForce == ingest_all(TRUE)

(***************************************************************************)
(* ingest_all(force_reingest=False) run by several processes on the same   *)
(* raw_data and vector store.  A run takes no lock and meets the others at *)
(* two places: the read of get_existing_books_in_vectorstore and the one   *)
(* add_documents call, which is taken as a single step of the store.       *)
(***************************************************************************)
Writers == 1..MaxWriters

NotStarted == [at |-> "idle", existing_books |-> {}, readOk |-> TRUE]
NoWriters == [w \in Writers |-> NotStarted]

\* The run up to its read of the Index: the scan, the store opened, and
\* existing_books.  A run with no book or no store returns here.
StartRun(w) ==
    /\ writers[w].at = "idle"
    /\ \E openOk \in BOOLEAN, readOk \in BOOLEAN :
        LET library == scan_library(rawData)
            why == IF library = <<>> THEN "no_books" ELSE "open_failed"
        IN  IF library = <<>> \/ ~openOk
            THEN /\ writers' = [writers EXCEPT ![w].at = "done"]
                 /\ lastRun' = RunRecord("ingest_all", FALSE, TRUE,
                                         EarlyReturn(index, ingestLog, why))
                 /\ runs' = runs + 1
            ELSE /\ writers' = [writers EXCEPT ![w] =
                        [at |-> "diffed",
                         existing_books |-> get_existing_books_in_vectorstore(index, readOk),
                         readOk |-> readOk]]
                 /\ UNCHANGED <<lastRun, runs>>
    /\ UNCHANGED <<rawData, index, ingestLog, messages, cache, lastCommand, lastListing,
                   conversations>>
    /\ UNCHANGED scopeVars
    /\ UNCHANGED agentVars

\* The rest of the run: the loop over the library with the existing_books read
\* before, add_documents, the summary and the log.
FinishRun(w) ==
    /\ writers[w].at = "diffed"
    /\ \E writeOk \in BOOLEAN, logOk \in BOOLEAN :
        LET library == scan_library(rawData)
            p == ProcessBooks(rawData, LibraryBooks(library), FALSE, writers[w].existing_books)
            summary == RunSummary(p.processed_count, p.skipped_count, p.all_chunks, library)
            r == WriteAndLog(index, ingestLog, p, summary, writeOk, logOk)
        IN  /\ index' = r.index
            /\ ingestLog' = r.log
            /\ lastRun' = RunRecord("ingest_all", FALSE, writers[w].readOk, r)
    /\ runs' = runs + 1
    /\ writers' = [writers EXCEPT ![w].at = "done"]
    /\ UNCHANGED <<rawData, messages, cache, lastCommand, lastListing, conversations>>
    /\ UNCHANGED scopeVars
    /\ UNCHANGED agentVars

(***************************************************************************)
(* run_ingestion of the "Add Textbooks" page: the same pipeline driven     *)
(* from the UI.  It lists the books to process first, returns when there   *)
(* are none, loops over that list only, creates CACHE_DIR before it writes *)
(* the log, and clears st.cache_resource, after which the application      *)
(* builds a new Catalog.                                                   *)
(***************************************************************************)
RunIngestionResult(raw, idx, log, force_reingest, openOk, readOk, writeOk) ==
    LET library == scan_library(raw)
        existing_books ==
            IF ~force_reingest THEN get_existing_books_in_vectorstore(idx, readOk) ELSE {}
        books == LibraryBooks(library)
        books_to_process ==
            SelectSeq(books, LAMBDA book :
                force_reingest \/ book.source_path \notin existing_books)
        left_out ==
            SelectSeq(books, LAMBDA book :
                ~(force_reingest \/ book.source_path \notin existing_books))
        q == ProcessBooks(raw, books_to_process, force_reingest, existing_books)
        p == [q EXCEPT !.skipped = [i \in 1..Len(left_out) |-> left_out[i].source_path]]
        summary == RunSummary(p.processed_count, p.skipped_count, p.all_chunks, library)
    IN  IF library = <<>> THEN EarlyReturn(idx, log, "no_books")
        ELSE IF ~openOk THEN EarlyReturn(idx, log, "open_failed")
        ELSE IF books_to_process = <<>>
        THEN [EarlyReturn(idx, log, "nothing_to_do") EXCEPT !.skipped = p.skipped]
        ELSE WriteAndLog(idx, log, p, summary, writeOk, TRUE)

run_ingestion(force_reingest) ==
    /\ runs < MaxRuns
    /\ \E openOk \in BOOLEAN, readOk \in BOOLEAN, writeOk \in BOOLEAN :
        LET r == RunIngestionResult(rawData, index, ingestLog, force_reingest,
                                    openOk, readOk, writeOk)
        IN  /\ index' = r.index
            /\ ingestLog' = r.log
            /\ lastRun' = RunRecord("run_ingestion", force_reingest, readOk, r)
            /\ cache' = IF r.ended = "complete" THEN <<>> ELSE cache
    /\ runs' = runs + 1
    /\ UNCHANGED <<rawData, messages, lastCommand, lastListing>>
    /\ UNCHANGED scopeVars
    /\ UNCHANGED agentVars
    /\ UNCHANGED sharingVars

PageIngestNew == run_ingestion(FALSE)
PageIngestForce == run_ingestion(TRUE)

\* Python truthiness of an optional string.
Truthy(v) == v # None /\ v # ""

(***************************************************************************)
(* Strings: str.lower() and the order sorted() puts them in, over the      *)
(* names that are stored or typed.                                         *)
(***************************************************************************)
LowerCase ==
    [x \in {"", None} |-> IF x = "" THEN "" ELSE "none"]
    @@ ("Y3S2" :> "y3s2") @@ ("y3s2" :> "y3s2") @@ ("Y2S1" :> "y2s1") @@ ("y2s1" :> "y2s1")
    @@ ("ML" :> "ml") @@ ("ml" :> "ml") @@ ("Finance" :> "finance") @@ ("finance" :> "finance")
    @@ ("TextbookA" :> "textbooka") @@ ("textbooka" :> "textbooka")
    @@ ("TextbookB" :> "textbookb") @@ ("textbookb" :> "textbookb")
    @@ ("report1" :> "report1") @@ ("CS101" :> "cs101") @@ ("cs101" :> "cs101")
    @@ ("semesters" :> "semesters") @@ ("subjects" :> "subjects") @@ ("books" :> "books")
    @@ ("use" :> "use") @@ ("Use" :> "use") @@ ("open" :> "open") @@ ("select" :> "select")
    @@ ("clear" :> "clear") @@ ("help" :> "help")

Lower(x) == LowerCase[x]

\* Code point order: digits, upper case, lower case.
StringOrder ==
    <<"CS101", "Finance", "ML", "TextbookA", "TextbookB", "Y2S1", "Y3S2", "cs101", "finance", "ml",
      "report1", "textbooka", "textbookb", "y2s1", "y3s2">>

sorted(S) == SelectSeq(StringOrder, LAMBDA x : x \in S)

(***************************************************************************)
(* Catalog                                                                 *)
(***************************************************************************)
\* A fetch that reads the collection at every call.
_get_all_metadata_NoCache(c, idx, readOk) ==
    IF readOk THEN [cache |-> <<idx>>, metadata |-> idx, read |-> TRUE, raised |-> FALSE]
    ELSE [cache |-> c, metadata |-> <<>>, read |-> TRUE, raised |-> FALSE]

\* A fetch that lets the exception of the read out.
_get_all_metadata_Raises(c, idx, readOk) ==
    IF c # <<>> THEN [cache |-> c, metadata |-> c[1], read |-> FALSE, raised |-> FALSE]
    ELSE IF readOk THEN [cache |-> <<idx>>, metadata |-> idx, read |-> TRUE, raised |-> FALSE]
    ELSE [cache |-> c, metadata |-> <<>>, read |-> TRUE, raised |-> TRUE]

\* _get_all_metadata: the cached list when there is one; else the collection's
\* metadata, which it caches; else (the read raised) the empty list, uncached.
\* One group of the Index stands for its n equal metadata entries.  `read` tells
\* whether collection.get() was called, `raised` whether an exception left the
\* method.
_get_all_metadata(c, idx, readOk) ==
    IF c # <<>> THEN [cache |-> c, metadata |-> c[1], read |-> FALSE, raised |-> FALSE]
    ELSE IF readOk THEN [cache |-> <<idx>>, metadata |-> idx, read |-> TRUE, raised |-> FALSE]
    ELSE [cache |-> c, metadata |-> <<>>, read |-> TRUE, raised |-> FALSE]

list_semesters(metadata) ==
    sorted({metadata[i].semester : i \in {j \in DOMAIN metadata : Truthy(metadata[j].semester)}})

list_subjects(metadata, semester) ==
    LET kept == IF Truthy(semester)
                THEN SelectSeq(metadata, LAMBDA m : Lower(m.semester) = Lower(semester))
                ELSE metadata
    IN  sorted({kept[i].subject : i \in {j \in DOMAIN kept : Truthy(kept[j].subject)}})


\* A list_books that compares the filters with the stored values as they are.
list_books_ExactCase(metadata, semester, subject) ==
    LET bySemester == IF Truthy(semester)
                      THEN SelectSeq(metadata, LAMBDA m : m.semester = semester)
                      ELSE metadata
        kept == IF Truthy(subject)
                THEN SelectSeq(bySemester, LAMBDA m : m.subject = subject)
                ELSE bySemester
        ids == sorted({kept[i].book_id : i \in {j \in DOMAIN kept : Truthy(kept[j].book_id)}})
        first(id) == kept[CHOOSE i \in DOMAIN kept :
                        /\ kept[i].book_id = id
                        /\ \A j \in 1..(i - 1) : kept[j].book_id # id]
    IN  [k \in 1..Len(ids) |->
            [book_id |-> ids[k], book_title |-> first(ids[k]).book_title,
             subject |-> first(ids[k]).subject, semester |-> first(ids[k]).semester]]

\* list_books: the entries of a semester and a subject (compared ignoring case),
\* one book per book_id, taken from the first entry that has the id, sorted by id.
list_books(metadata, semester, subject) ==
    LET bySemester == IF Truthy(semester)
                      THEN SelectSeq(metadata, LAMBDA m : Lower(m.semester) = Lower(semester))
                      ELSE metadata
        kept == IF Truthy(subject)
                THEN SelectSeq(bySemester, LAMBDA m : Lower(m.subject) = Lower(subject))
                ELSE bySemester
        ids == sorted({kept[i].book_id : i \in {j \in DOMAIN kept : Truthy(kept[j].book_id)}})
        first(id) == kept[CHOOSE i \in DOMAIN kept :
                        /\ kept[i].book_id = id
                        /\ \A j \in 1..(i - 1) : kept[j].book_id # id]
    IN  [k \in 1..Len(ids) |->
            [book_id |-> ids[k], book_title |-> first(ids[k]).book_title,
             subject |-> first(ids[k]).subject, semester |-> first(ids[k]).semester]]

\* What a list method returns from the metadata it got.
Listing(op, metadata, semester, subject) ==
    IF op = "list_semesters" THEN list_semesters(metadata)
    ELSE IF op = "list_subjects" THEN list_subjects(metadata, semester)
    ELSE list_books(metadata, semester, subject)

NoListing ==
    [op |-> "none", semester |-> None, subject |-> None, result |-> <<>>,
     read |-> FALSE, readOk |-> TRUE, raised |-> FALSE, snapshot |-> <<>>,
     metadata |-> <<>>]

\* The arguments the callers pass: the active semester and subject, or None.
ListedSemesters == {None, "Y3S2", "y2s1"}
ListedSubjects == {None, "ML"}

(***************************************************************************)
(* Messages.  content is a sequence of text pieces, read as their          *)
(* concatenation.                                                          *)
(***************************************************************************)
NoId == <<>>

HumanMessage(content) ==
    [type |-> "human", content |-> content, tool_calls |-> <<>>,
     tool_call_id |-> NoId, name |-> None]

AIMessage(content, tool_calls) ==
    [type |-> "ai", content |-> content, tool_calls |-> tool_calls,
     tool_call_id |-> NoId, name |-> None]

ToolMessage(tool_call_id, name, content) ==
    [type |-> "tool", content |-> content, tool_calls |-> <<>>,
     tool_call_id |-> tool_call_id, name |-> name]

SystemMessage(content) ==
    [type |-> "system", content |-> content, tool_calls |-> <<>>,
     tool_call_id |-> NoId, name |-> None]

Last(s) == s[Len(s)]

\* sep.join(parts), each part a sequence of text pieces.
RECURSIVE Join(_, _)
Join(sep, parts) ==
    IF Len(parts) = 0 THEN <<>>
    ELSE IF Len(parts) = 1 THEN parts[1]
    ELSE parts[1] \o <<sep>> \o Join(sep, Tail(parts))

\* A description that leaves the books out.
get_scope_description_NoBooks(state) ==
    LET parts ==
            (IF Truthy(state.active_semester)
                THEN << <<"Semester: ", state.active_semester>> >> ELSE <<>>)
            \o
            (IF Truthy(state.active_subject)
                THEN << <<"Subject: ", state.active_subject>> >> ELSE <<>>)
    IN  IF Len(parts) = 0 THEN <<"All materials (no active scope)">>
        ELSE Join(" | ", parts)

\* Catalog.get_scope_description: the text pieces of the description.
get_scope_description(state) ==
    LET books == state.active_books
        parts ==
            (IF Truthy(state.active_semester)
                THEN << <<"Semester: ", state.active_semester>> >> ELSE <<>>)
            \o
            (IF Truthy(state.active_subject)
                THEN << <<"Subject: ", state.active_subject>> >> ELSE <<>>)
            \o
            (IF Len(books) > 0
                THEN IF Len(books) = 1
                        THEN << <<"Book: ", books[1]>> >>
                        ELSE << <<"Books: ">> \o Join(", ", [i \in DOMAIN books |-> <<books[i]>>]) >>
                ELSE <<>>)
    IN  IF Len(parts) = 0 THEN <<"All materials (no active scope)">>
        ELSE Join(" | ", parts)

\* SYSTEM_PROMPT.format(scope_description=...): the instructions end with the
\* line "Current scope: " and the description.
SYSTEM_PROMPT(scope_description) == <<"SYSTEM_PROMPT", "Current scope: ">> \o scope_description

(***************************************************************************)
(* create_retriever_tool.retriever_tool                                    *)
(***************************************************************************)
NO_RESULTS_TEXT ==
    "No relevant information found in the current scope. Try using 'clear' to search all materials or adjust your scope."
ERROR_PREFIX == "Error during retrieval: "

\* filter_conditions: the list of conditions, in the order the code appends them.
filter_conditions(state) ==
    (IF Truthy(state.active_semester)
        THEN << [field |-> "semester", op |-> "$eq", value |-> <<state.active_semester>>] >>
        ELSE <<>>)
    \o
    (IF Truthy(state.active_subject)
        THEN << [field |-> "subject", op |-> "$eq", value |-> <<state.active_subject>>] >>
        ELSE <<>>)
    \o
    (IF Len(state.active_books) > 0
        THEN << [field |-> "book_id", op |-> "$in", value |-> state.active_books] >>
        ELSE <<>>)

\* A filter that keeps only the first condition when there are several.
where_filter_FirstOnly(state) ==
    LET conds == filter_conditions(state)
    IN  IF Len(conds) = 0 THEN [op |-> "none", conds |-> <<>>]
        ELSE [op |-> "single", conds |-> <<conds[1]>>]

\* where_filter: None, the single condition, or {'$and': conditions}.
where_filter(state) ==
    LET conds == filter_conditions(state)
    IN  IF Len(conds) = 0 THEN [op |-> "none", conds |-> <<>>]
        ELSE IF Len(conds) = 1 THEN [op |-> "single", conds |-> conds]
        ELSE [op |-> "$and", conds |-> conds]

\* Chroma's evaluation of one condition and of a where clause on an item's metadata.
ConditionHolds(c, item) ==
    IF c.op = "$eq" THEN item[c.field] = c.value[1]
    ELSE \E i \in DOMAIN c.value : item[c.field] = c.value[i]

WhereMatches(w, item) ==
    IF w.op = "none" THEN TRUE
    ELSE IF w.op = "single" THEN ConditionHolds(w.conds[1], item)
    ELSE \A i \in DOMAIN w.conds : ConditionHolds(w.conds[i], item)

\* similarity_search(query, k, filter): the k nearest chunks among those the filter
\* admits.  The ranking is that of the embedding, a fixed function of the query and
\* the stored texts; the model ranks by insertion order.
RECURSIVE TakeChunks(_, _)
TakeChunks(groups, k) ==
    IF k = 0 \/ groups = <<>> THEN <<>>
    ELSE LET g == Head(groups)
             m == IF g.n < k THEN g.n ELSE k
         IN  [i \in 1..m |-> g] \o TakeChunks(Tail(groups), k - m)

similarity_search(idx, w, k) ==
    TakeChunks(SelectSeq(idx, LAMBDA g : WhereMatches(w, g)), k)

\* The formatted block: one section per document, joined by the separator.
RECURSIVE FormatResults(_)
FormatResults(docs) ==
    IF docs = <<>> THEN <<>>
    ELSE LET d == Head(docs)
             section == <<"[", d.book_title, " | Page ", "N", " | ", d.semester, "/",
                          d.subject, "]\n", "page_content">>
         IN  IF Tail(docs) = <<>> THEN section
             ELSE section \o <<"\n\n---\n\n">> \o FormatResults(Tail(docs))

\* A handler that answers a failed search as if nothing had been found.
RetrievalErrorText_AsNoResults(e) == <<NO_RESULTS_TEXT>>

\* What the tool returns when the search raises.
RetrievalErrorText(e) == <<ERROR_PREFIX, e>>

\* What the tool returns for an empty result list.
NoResultsText == <<NO_RESULTS_TEXT>>

\* The tool's return value: `answer` is how the Index answered the search ("ok" or
\* the text of the exception it raised).
retriever_tool(state, idx, answer) ==
    LET w == where_filter(state)
        docs == similarity_search(idx, w, TOP_K)
    IN  IF answer # "ok" THEN RetrievalErrorText(answer)
        ELSE IF docs = <<>> THEN NoResultsText
        ELSE FormatResults(docs)

EmptyState ==
    [messages |-> <<>>, active_semester |-> None, active_subject |-> None,
     active_books |-> <<>>]

(***************************************************************************)
(* create_agent_nodes, should_continue, build_study_agent                  *)
(***************************************************************************)
RETRIEVER == "retriever_tool"
tools_dict == {RETRIEVER}

\* How the Index may answer a search: with the documents, or by raising.
IndexAnswers == {"ok", "connection refused"}

\* The tool names one assistant message may request, in order.
RequestShapes ==
    { <<RETRIEVER>>, <<"web_search">>, <<RETRIEVER, "web_search">>,
      <<"web_search", RETRIEVER>>, <<RETRIEVER, RETRIEVER>> }

\* The tool requests of the assistant message at position pos of the history.
ToolCalls(names, pos) ==
    [i \in 1..Len(names) |->
        [name |-> names[i], args |-> [query |-> "q"], id |-> <<pos, i>>]]

\* The messages by which the completion service requests tools.
ToolRequests(msgs) ==
    {AIMessage(<<>>, ToolCalls(names, Len(msgs) + 1)) : names \in RequestShapes}

\* Every message the completion service may answer with.
Completions(msgs) == {AIMessage(<<"answer">>, <<>>)} \cup ToolRequests(msgs)

\* A channel without a reducer: the node's output replaces the list.
add_messages_Replace(left, right) == right

\* The reducer of AgentState.messages.  The messages a node returns carry no id
\* of a message already in the list, so each is added at the end.
add_messages(left, right) == left \o right

\* An invoke that no limit stops.
NoRecursionLimit(n) == TRUE

\* A node may run while the invoke is within its recursion limit.
WithinRecursionLimit(n) == n < RecursionLimit

\* A routing that always goes on to the tools.
should_continue_Always(state) == TRUE

should_continue(state) == Len(Last(state.messages).tool_calls) > 0

\* get_current_state: current_state_ref['state'] or {}.  The reference holds the
\* graph state; the model keeps the scope fields, the ones read through it.
ScopeOf(state) ==
    [active_semester |-> state.active_semester, active_subject |-> state.active_subject,
     active_books |-> state.active_books]

get_current_state(ref) == IF ref = <<>> THEN ScopeOf(EmptyState) ELSE ref[1]

\* A dispatch that does not look the name up and runs the retriever.
ToolResult_NoNameCheck(t, ref, idx, answer) ==
    retriever_tool(get_current_state(ref), idx, answer)

\* take_action, one request: the text of its result.
ToolResult(t, ref, idx, answer) ==
    IF t.name \notin tools_dict
    THEN <<"Error: Tool '", t.name, "' does not exist.">>
    ELSE retriever_tool(get_current_state(ref), idx, answer)

\* A take_action that answers only the requests whose tool it knows.
take_action_results_KnownOnly(tool_calls, ref, idx, answers) ==
    LET known == SelectSeq([i \in 1..Len(tool_calls) |-> i],
                           LAMBDA i : tool_calls[i].name \in tools_dict)
    IN  [k \in 1..Len(known) |->
            ToolMessage(tool_calls[known[k]].id, tool_calls[known[k]].name,
                        ToolResult(tool_calls[known[k]], ref, idx, answers[known[k]]))]

\* take_action: the list of tool-result messages it returns.
take_action_results(tool_calls, ref, idx, answers) ==
    [i \in 1..Len(tool_calls) |->
        ToolMessage(tool_calls[i].id, tool_calls[i].name,
                    ToolResult(tool_calls[i], ref, idx, answers[i]))]

\* The searches one take_action makes, with how the Index answered each.
SearchRecords(tool_calls, ref, idx, answers) ==
    {[request |-> tool_calls[i].id,
      semester |-> active_semester, subject |-> active_subject, books |-> active_books,
      where |-> where_filter(get_current_state(ref)),
      answer |-> answers[i],
      found |-> Len(similarity_search(idx, where_filter(get_current_state(ref)), TOP_K)),
      content |-> ToolResult(tool_calls[i], ref, idx, answers[i])] :
        i \in {j \in DOMAIN tool_calls : tool_calls[j].name \in tools_dict}}

NoRun ==
    [via |-> "none", force |-> FALSE, ended |-> "none", readOk |-> TRUE, before |-> <<>>,
     logBefore |-> <<>>, added |-> <<>>, skipped |-> <<>>, loaded |-> <<>>, failed |-> <<>>,
     writes |-> 0, completion |-> <<>>]

(***************************************************************************)
(* StudyRAGInterface.handle_navigation_command                             *)
(***************************************************************************)
\* What the user may type at the navigation prompt: a word and the rest of the line.
PlainWords == {"semesters", "subjects", "books", "clear", "help"}
ArgWords == {"use", "Use", "open", "select"}
TypedArgs == {"", "Y3S2", "y3s2", "ML", "TextbookA", "CS101"}
Commands(args) == [word : ArgWords, rest : args]
TypedCommands == [word : PlainWords, rest : {""}] \cup Commands(TypedArgs)

\* parts = command.strip().lower().split(maxsplit=1)
Parse(command) ==
    [cmd |-> Lower(command.word),
     arg |-> IF command.rest = "" THEN None ELSE Lower(command.rest)]

\* A lookup that compares the names as they are.
RECURSIVE FirstMatch_CaseSensitive(_, _)
FirstMatch_CaseSensitive(available, arg) ==
    IF available = <<>> THEN None
    ELSE IF Head(available) = arg THEN Head(available)
    ELSE FirstMatch_CaseSensitive(Tail(available), arg)

\* The loop that looks a name up in a sorted list ignoring case: the first entry
\* that matches, None when there is none.
RECURSIVE FirstMatch(_, _)
FirstMatch(available, arg) ==
    IF available = <<>> THEN None
    ELSE IF Lower(Head(available)) = Lower(arg) THEN Head(available)
    ELSE FirstMatch(Tail(available), arg)

\* The value "use" / "open" stores: the matched entry, else the argument.
Resolved(available, arg) ==
    IF FirstMatch(available, arg) # None THEN FirstMatch(available, arg) ELSE arg

NoCommand ==
    [cmd |-> None, typed |-> "", metadata |-> <<>>, semester_before |-> None,
     printed |-> "", noted |-> FALSE]

\* The record of a "use" / "open": what was typed, the metadata the catalog listed
\* from, and the semester that was active.
\* `printed` is the confirmation line: "Active ...: <match>" for a match, "Active
\* ... set to: <arg>" otherwise; `noted` tells whether the "Note: '<arg>' not
\* found" line came before it, which needs a non-empty list.
Listed(command, md) ==
    LET c == Parse(command)
        available == IF c.cmd = "use" THEN list_semesters(md)
                     ELSE list_subjects(md, active_semester)
        matched == FirstMatch(available, c.arg) # None
    IN  [cmd |-> c.cmd, typed |-> command.rest, metadata |-> md,
         semester_before |-> active_semester,
         printed |-> IF matched THEN "Active" ELSE "Active set to",
         noted |-> ~matched /\ available # <<>>]

\* The record of any other command.
Typed(command) ==
    [cmd |-> Parse(command).cmd,
     typed |-> IF Parse(command).cmd = "select" THEN command.rest ELSE "",
     metadata |-> <<>>, semester_before |-> None, printed |-> "", noted |-> FALSE]

\* How a read of the Index may go when the catalog has to make one.
ReadOutcomes == IF cache = <<>> THEN BOOLEAN ELSE {TRUE}

NavFrame ==
    /\ UNCHANGED <<lastListing, messages, pc, caller, gstate, steps, current_state_ref, queries,
                   lastQuery, searches>>
    /\ UNCHANGED ingestVars
    /\ UNCHANGED sharingVars

\* "semesters", "subjects", "books": the catalog is read and the list printed.
ListCommand ==
    /\ pc = "nav"
    /\ \E command \in TypedCommands, readOk \in ReadOutcomes :
        LET c == Parse(command)
            got == _get_all_metadata(cache, index, readOk)
        IN  /\ c.cmd \in {"semesters", "subjects", "books"}
            /\ cache' = got.cache
            /\ lastCommand' = Typed(command)
    /\ UNCHANGED scopeVars
    /\ NavFrame

\* "use <semester>", the line typed being one of `commands`.
use_semester(commands) ==
    /\ pc = "nav"
    /\ \E command \in commands, readOk \in ReadOutcomes :
        LET c == Parse(command)
            got == _get_all_metadata(cache, index, readOk)
            available == list_semesters(got.metadata)
        IN  /\ c.cmd = "use" /\ c.arg # None
            /\ cache' = got.cache
            /\ active_semester' = Resolved(available, c.arg)
            /\ lastCommand' = Listed(command, got.metadata)
    /\ UNCHANGED <<active_subject, active_books>>
    /\ NavFrame

UseSemester == use_semester(TypedCommands)

\* "open <subject>", the line typed being one of `commands`.
open_subject(commands) ==
    /\ pc = "nav"
    /\ \E command \in commands, readOk \in ReadOutcomes :
        LET c == Parse(command)
            got == _get_all_metadata(cache, index, readOk)
            available == list_subjects(got.metadata, active_semester)
        IN  /\ c.cmd = "open" /\ c.arg # None
            /\ cache' = got.cache
            /\ active_subject' = Resolved(available, c.arg)
            /\ lastCommand' = Listed(command, got.metadata)
    /\ UNCHANGED <<active_semester, active_books>>
    /\ NavFrame

OpenSubject == open_subject(TypedCommands)

\* "select <book>", the line typed being one of `commands`.
select_book(commands) ==
    /\ pc = "nav"
    /\ \E command \in commands :
        LET c == Parse(command)
        IN  /\ c.cmd = "select" /\ c.arg # None
            /\ \/ c.arg \in Range(active_books)
               \/ Len(active_books) < MaxBooks
            /\ active_books' = IF c.arg \in Range(active_books) THEN active_books
                               ELSE Append(active_books, c.arg)
            /\ lastCommand' = Typed(command)
    /\ UNCHANGED <<active_semester, active_subject, cache>>
    /\ NavFrame

SelectBook == select_book(TypedCommands)

\* A "clear" that forgets the semester and the subject only.
ClearScope_KeepsBooks ==
    /\ pc = "nav"
    /\ \E command \in TypedCommands :
        /\ Parse(command).cmd = "clear"
        /\ lastCommand' = Typed(command)
    /\ active_semester' = None
    /\ active_subject' = None
    /\ UNCHANGED <<active_books, cache>>
    /\ NavFrame

\* "clear"
ClearScope ==
    /\ pc = "nav"
    /\ \E command \in TypedCommands :
        /\ Parse(command).cmd = "clear"
        /\ lastCommand' = Typed(command)
    /\ active_semester' = None
    /\ active_subject' = None
    /\ active_books' = <<>>
    /\ UNCHANGED cache
    /\ NavFrame

\* Any other line, or a command that lacks its argument: a message is printed.
UnknownCommand ==
    /\ pc = "nav"
    /\ \E command \in TypedCommands :
        LET c == Parse(command)
        IN  /\ \/ c.cmd \notin {"semesters", "subjects", "books", "use", "open", "select", "clear"}
               \/ c.cmd \in {"use", "open", "select"} /\ c.arg = None
            /\ lastCommand' = Typed(command)
    /\ UNCHANGED cache
    /\ UNCHANGED scopeVars
    /\ NavFrame

(***************************************************************************)
(* The list methods of one Catalog, as the navigation commands and the     *)
(* sidebar of the application call them.                                   *)
(***************************************************************************)
CatalogCall(op, semester, subject) ==
    /\ \E readOk \in ReadOutcomes :
        LET got == _get_all_metadata(cache, index, readOk)
        IN  /\ cache' = got.cache
            /\ lastListing' =
                [op |-> op, semester |-> semester, subject |-> subject,
                 result |-> IF got.raised THEN <<>>
                            ELSE Listing(op, got.metadata, semester, subject),
                 read |-> got.read, readOk |-> readOk, raised |-> got.raised,
                 snapshot |-> cache, metadata |-> got.metadata]
    /\ UNCHANGED <<messages, lastCommand>>
    /\ UNCHANGED scopeVars
    /\ UNCHANGED agentVars
    /\ UNCHANGED sharingVars
    /\ UNCHANGED ingestVars
    /\ UNCHANGED sharingVars

ListSemesters == CatalogCall("list_semesters", None, None)

ListSubjects == \E semester \in ListedSemesters : CatalogCall("list_subjects", semester, None)

ListBooks ==
    \E semester \in ListedSemesters, subject \in ListedSubjects :
        CatalogCall("list_books", semester, subject)

(***************************************************************************)
(* StudyRAGInterface: chat mode, ask, and the steps of study_agent.invoke. *)
(***************************************************************************)
QUESTION == <<"question">>

TheState ==
    [messages |-> messages, active_semester |-> active_semester,
     active_subject |-> active_subject, active_books |-> active_books]

\* handle_navigation_command "chat": run_chat_mode starts prompting.
EnterChat ==
    /\ pc = "nav"
    /\ pc' = "chat"
    /\ UNCHANGED <<messages, cache, lastCommand, lastListing, caller, gstate, steps, current_state_ref, queries,
                   lastQuery, searches>>
    /\ UNCHANGED scopeVars
    /\ UNCHANGED ingestVars
    /\ UNCHANGED sharingVars

\* run_chat_mode, input 'exit' / 'quit' / 'back'.
ExitChat ==
    /\ pc = "chat"
    /\ pc' = "nav"
    /\ UNCHANGED <<messages, cache, lastCommand, lastListing, caller, gstate, steps, current_state_ref, queries,
                   lastQuery, searches>>
    /\ UNCHANGED scopeVars
    /\ UNCHANGED ingestVars
    /\ UNCHANGED sharingVars

\* run_chat_mode, a question: the message is appended to the session's list and
\* the agent is invoked on the session state.
ChatInput ==
    /\ pc = "chat"
    /\ queries < MaxQueries
    /\ messages' = Append(messages, HumanMessage(QUESTION))
    /\ gstate' = [TheState EXCEPT !.messages = messages']
    /\ pc' = "llm"
    /\ caller' = "chat"
    /\ steps' = 0
    /\ queries' = queries + 1
    /\ lastQuery' = <<[before |-> messages, ended |-> "running", sent |-> <<>>]>>
    /\ searches' = {}
    /\ UNCHANGED <<cache, lastCommand, lastListing, current_state_ref>>
    /\ UNCHANGED scopeVars
    /\ UNCHANGED ingestVars
    /\ UNCHANGED sharingVars

\* ask_question: the agent is invoked on a copy of the state that ends with the
\* question.
AskQuestion ==
    /\ pc = "nav"
    /\ queries < MaxQueries
    /\ gstate' = [TheState EXCEPT !.messages = messages \o <<HumanMessage(QUESTION)>>]
    /\ pc' = "llm"
    /\ caller' = "ask"
    /\ steps' = 0
    /\ queries' = queries + 1
    /\ lastQuery' = <<[before |-> messages, ended |-> "running", sent |-> <<>>]>>
    /\ searches' = {}
    /\ UNCHANGED <<messages, cache, lastCommand, lastListing, current_state_ref>>
    /\ UNCHANGED scopeVars
    /\ UNCHANGED ingestVars
    /\ UNCHANGED sharingVars

\* call_llm: what llm.invoke is given.
Request(state) ==
    <<SystemMessage(SYSTEM_PROMPT(get_scope_description(state)))>> \o state.messages

\* The "llm" node and the conditional edge that leaves it: `completions` is what
\* the completion service may answer.
call_llm(completions) ==
    /\ pc = "llm"
    /\ WithinRecursionLimit(steps)
    /\ lastQuery' = <<[lastQuery[1] EXCEPT !.sent = Append(@, Request(gstate))]>>
    /\ \E message \in completions :
        gstate' = [gstate EXCEPT !.messages = add_messages(@, <<message>>)]
    /\ pc' = IF should_continue(gstate') THEN "retriever_agent" ELSE "end"
    /\ steps' = steps + 1
    /\ UNCHANGED <<messages, cache, lastCommand, lastListing, caller, current_state_ref, queries, searches>>
    /\ UNCHANGED scopeVars
    /\ UNCHANGED ingestVars
    /\ UNCHANGED sharingVars

CallLLM == call_llm(Completions(gstate.messages))

\* The "retriever_agent" node and the edge back to "llm".
take_action ==
    /\ pc = "retriever_agent"
    /\ WithinRecursionLimit(steps)
    /\ current_state_ref' = <<ScopeOf(gstate)>>
    /\ LET tool_calls == Last(gstate.messages).tool_calls
       IN  \E answers \in [DOMAIN tool_calls -> IndexAnswers] :
            /\ gstate' = [gstate EXCEPT !.messages =
                    add_messages(@, take_action_results(tool_calls, current_state_ref', index,
                                                        answers))]
            /\ searches' = searches
                    \cup SearchRecords(tool_calls, current_state_ref', index, answers)
    /\ pc' = "llm"
    /\ steps' = steps + 1
    /\ UNCHANGED <<messages, cache, lastCommand, lastListing, caller, queries, lastQuery>>
    /\ UNCHANGED scopeVars
    /\ UNCHANGED ingestVars
    /\ UNCHANGED sharingVars

\* invoke has used up its super-steps with a node still to run: it raises
\* GraphRecursionError, which nothing in the program catches.
RecursionError ==
    /\ pc \in {"llm", "retriever_agent"}
    /\ ~WithinRecursionLimit(steps)
    /\ pc' = "crashed"
    /\ lastQuery' = <<[lastQuery[1] EXCEPT !.ended = "GraphRecursionError"]>>
    /\ UNCHANGED <<messages, cache, lastCommand, lastListing, caller, gstate, steps, current_state_ref, queries,
                   searches>>
    /\ UNCHANGED scopeVars
    /\ UNCHANGED ingestVars
    /\ UNCHANGED sharingVars

\* The completion service raises, or the user interrupts the running invoke
\* (KeyboardInterrupt): the exception leaves run_chat_mode / ask_question.
QueryAborts ==
    /\ pc \in {"llm", "retriever_agent"}
    /\ WithinRecursionLimit(steps)
    /\ pc' = "crashed"
    /\ lastQuery' = <<[lastQuery[1] EXCEPT !.ended = "aborted"]>>
    /\ UNCHANGED <<messages, cache, lastCommand, lastListing, caller, gstate, steps, current_state_ref, queries,
                   searches>>
    /\ UNCHANGED scopeVars
    /\ UNCHANGED ingestVars
    /\ UNCHANGED sharingVars

\* invoke returns: run_chat_mode stores the returned messages, ask_question only
\* prints the answer.
InvokeReturns ==
    /\ pc = "end"
    /\ messages' = IF caller = "chat" THEN gstate.messages ELSE messages
    /\ pc' = IF caller = "chat" THEN "chat" ELSE "nav"
    /\ lastQuery' = <<[lastQuery[1] EXCEPT !.ended = "answered", !.sent = <<>>]>>
    /\ gstate' = EmptyState
    /\ searches' = {}
    /\ UNCHANGED <<cache, lastCommand, lastListing, caller, steps, current_state_ref, queries>>
    /\ UNCHANGED scopeVars
    /\ UNCHANGED ingestVars
    /\ UNCHANGED sharingVars

(***************************************************************************)
(* streamlit_app.py: the chat page.  st.session_state.messages holds       *)
(* {"role", "content"} entries; the scope is the session's.                *)
(***************************************************************************)
ChatEntry(role, content) == [role |-> role, content |-> content]

\* The chat input: the prompt is added to the session's history and the agent is
\* invoked on a state built for this prompt.
StreamlitChatInput ==
    /\ pc = "page"
    /\ queries < MaxQueries
    /\ messages' = Append(messages, ChatEntry("user", QUESTION))
    /\ gstate' = [TheState EXCEPT !.messages = <<HumanMessage(QUESTION)>>]
    /\ pc' = "llm"
    /\ caller' = "streamlit"
    /\ steps' = 0
    /\ queries' = queries + 1
    /\ lastQuery' = <<[before |-> messages, ended |-> "running", sent |-> <<>>]>>
    /\ searches' = {}
    /\ UNCHANGED <<cache, lastCommand, lastListing, current_state_ref>>
    /\ UNCHANGED scopeVars
    /\ UNCHANGED ingestVars
    /\ UNCHANGED sharingVars

\* invoke returns to the page: the answer's text is added to the history.
StreamlitInvokeReturns ==
    /\ pc = "end"
    /\ caller = "streamlit"
    /\ messages' = Append(messages, ChatEntry("assistant", Last(gstate.messages).content))
    /\ pc' = "page"
    /\ lastQuery' = <<[lastQuery[1] EXCEPT !.ended = "answered", !.sent = <<>>]>>
    /\ gstate' = EmptyState
    /\ searches' = {}
    /\ UNCHANGED <<cache, lastCommand, lastListing, caller, steps, current_state_ref, queries>>
    /\ UNCHANGED scopeVars
    /\ UNCHANGED ingestVars
    /\ UNCHANGED sharingVars

\* The "Clear Chat History" button.
StreamlitClearChat ==
    /\ pc = "page"
    /\ messages # <<>>
    /\ messages' = <<>>
    /\ UNCHANGED <<cache, lastCommand, lastListing, pc, caller, gstate, steps, current_state_ref,
                   queries, lastQuery, searches>>
    /\ UNCHANGED scopeVars
    /\ UNCHANGED ingestVars
    /\ UNCHANGED sharingVars

(***************************************************************************)
(* Several sessions of the Streamlit application.  load_system is cached,  *)
(* so all of them invoke the one compiled agent, whose nodes and tool      *)
(* close over the one current_state_ref.  Each session's script runs in a  *)
(* thread of its own; a session's steps are those of its invoke.           *)
(***************************************************************************)
Conversations == 1..MaxConversations

\* The scopes the sessions have set in their sidebars.
SessionScopes ==
    [active_semester : {None, "Y3S2", "Y2S1"}, active_subject : {None, "ML"},
     active_books : {<<>>}]

Waiting(scope) == [at |-> "idle", scope |-> scope, pending |-> 0, filters |-> <<>>]
NoConversations == [c \in Conversations |-> Waiting(ScopeOf(EmptyState))]

\* What a step of a session leaves alone.
SessionFrame ==
    /\ UNCHANGED <<messages, cache, lastCommand, lastListing, pc, caller, gstate, steps, queries,
                   lastQuery, searches>>
    /\ UNCHANGED scopeVars
    /\ UNCHANGED ingestVars

\* The chat input of session c: the agent is invoked on a state that carries the
\* session's scope.
SessionInput(c) ==
    /\ conversations[c].at = "idle"
    /\ conversations' = [conversations EXCEPT ![c].at = "llm", ![c].filters = <<>>]
    /\ UNCHANGED <<writers, current_state_ref>>
    /\ SessionFrame

\* call_llm of session c: the completion service answers, or requests one or two
\* searches.
SessionAsk(c) ==
    /\ conversations[c].at = "llm"
    /\ \E requested \in 0..2 :
        conversations' = [conversations EXCEPT
            ![c].at = IF requested = 0 THEN "end" ELSE "retriever_agent",
            ![c].pending = requested]
    /\ UNCHANGED <<writers, current_state_ref>>
    /\ SessionFrame

\* take_action of session c, its first statement: the state of this invoke is
\* put into current_state_ref.
SessionAct(c) ==
    /\ conversations[c].at = "retriever_agent"
    /\ current_state_ref' = <<conversations[c].scope>>
    /\ conversations' = [conversations EXCEPT ![c].at = "tools", ![c].filters = <<>>]
    /\ UNCHANGED writers
    /\ SessionFrame

\* take_action of session c, one turn of its loop: retriever_tool reads the
\* state through get_current_state and builds its filter from it.
SessionTool(c) ==
    /\ conversations[c].at = "tools"
    /\ conversations' = [conversations EXCEPT
            ![c].filters = Append(@, where_filter(get_current_state(current_state_ref))),
            ![c].pending = @ - 1,
            ![c].at = IF conversations[c].pending = 1 THEN "llm" ELSE "tools"]
    /\ UNCHANGED <<writers, current_state_ref>>
    /\ SessionFrame

\* invoke returns to the page of session c.
SessionReturns(c) ==
    /\ conversations[c].at = "end"
    /\ conversations' = [conversations EXCEPT ![c].at = "idle"]
    /\ UNCHANGED <<writers, current_state_ref>>
    /\ SessionFrame

(***************************************************************************)
(* Initial states.                                                         *)
(***************************************************************************)
\* One ingestion at a time and one conversation: nothing runs beside them.
Alone == writers = NoWriters /\ conversations = NoConversations

InitSession ==
    /\ messages = <<>>
    /\ active_semester = None
    /\ active_subject = None
    /\ active_books = <<>>
    /\ cache = <<>>
    /\ lastCommand = NoCommand
    /\ lastListing = NoListing
    /\ pc = "nav"
    /\ caller = "chat"
    /\ gstate = EmptyState
    /\ steps = 0
    /\ current_state_ref = <<>>
    /\ queries = 0
    /\ lastQuery = <<>>
    /\ searches = {}

InitIngest ==
    /\ Alone
    /\ rawData \in RawDataStates
    /\ index = <<>>
    /\ ingestLog = <<>>
    /\ lastRun = NoRun
    /\ runs = 0
    /\ InitSession

\* A library with one large textbook and two short documents, and the Index an
\* ingestion run builds from it.
SessionRaw ==
    [dirs |-> Semesters,
     pdfs |-> [p \in PdfPaths |-> IF p = PathOrder[1] THEN Readable(BigPdf) ELSE Readable(1)]]

SessionIndex == IngestAllResult(SessionRaw, <<>>, <<>>, FALSE, TRUE, TRUE, TRUE, TRUE).index

\* The scopes a chat explores: each is one the navigation commands produce.
ChatScopes ==
    [active_semester : {None, "Y3S2"},
     active_subject : {None, "ML", "Finance"},
     active_books : {<<>>, <<"textbooka">>, <<"textbooka", "report1">>}]

InitChat ==
    /\ Alone
    /\ rawData = SessionRaw
    /\ index = SessionIndex
    /\ ingestLog = <<>>
    /\ lastRun = NoRun
    /\ runs = 0
    /\ messages = <<>>
    /\ \E sc \in ChatScopes :
        /\ active_semester = sc.active_semester
        /\ active_subject = sc.active_subject
        /\ active_books = sc.active_books
    /\ cache = <<>>
    /\ lastCommand = NoCommand
    /\ lastListing = NoListing
    /\ pc = "nav"
    /\ caller = "chat"
    /\ gstate = EmptyState
    /\ steps = 0
    /\ current_state_ref = <<>>
    /\ queries = 0
    /\ lastQuery = <<>>
    /\ searches = {}

(***************************************************************************)
(* Specifications.                                                         *)
(***************************************************************************)
NextIngest == IngestNew \/ IngestForce \/ PageIngestNew \/ PageIngestForce

SpecIngest == InitIngest /\ [][NextIngest]_vars

NextChat ==
    \/ EnterChat
    \/ ExitChat
    \/ ChatInput
    \/ CallLLM
    \/ take_action
    \/ RecursionError
    \/ QueryAborts
    \/ InvokeReturns

SpecChat == InitChat /\ [][NextChat]_vars

\* The chat page of the Streamlit application, one session.
InitStreamlit ==
    /\ Alone
    /\ rawData = SessionRaw
    /\ index = SessionIndex
    /\ ingestLog = <<>>
    /\ lastRun = NoRun
    /\ runs = 0
    /\ messages = <<>>
    /\ \E sc \in ChatScopes :
        /\ active_semester = sc.active_semester
        /\ active_subject = sc.active_subject
        /\ active_books = sc.active_books
    /\ cache = <<>>
    /\ lastCommand = NoCommand
    /\ lastListing = NoListing
    /\ pc = "page"
    /\ caller = "streamlit"
    /\ gstate = EmptyState
    /\ steps = 0
    /\ current_state_ref = <<>>
    /\ queries = 0
    /\ lastQuery = <<>>
    /\ searches = {}

NextStreamlit ==
    \/ StreamlitChatInput
    \/ CallLLM
    \/ take_action
    \/ RecursionError
    \/ StreamlitInvokeReturns
    \/ StreamlitClearChat

SpecStreamlit == InitStreamlit /\ [][NextStreamlit]_vars

\* Processes that run ingest_all(force_reingest=False) side by side over a
\* library of small PDFs, the vector store empty at first.
SmallLibraries ==
    {[dirs |-> Semesters, pdfs |-> f] : f \in [PdfPaths -> {Readable(1), Corrupt}]}

InitWriters ==
    /\ rawData \in SmallLibraries
    /\ index = <<>>
    /\ ingestLog = <<>>
    /\ lastRun = NoRun
    /\ runs = 0
    /\ InitSession
    /\ writers = NoWriters
    /\ conversations = NoConversations

NextWriters == \E w \in Writers : StartRun(w) \/ FinishRun(w)

SpecWriters == InitWriters /\ [][NextWriters]_vars

\* Sessions of one Streamlit process, each with a scope of its own.
InitShared ==
    /\ rawData = SessionRaw
    /\ index = SessionIndex
    /\ ingestLog = <<>>
    /\ lastRun = NoRun
    /\ runs = 0
    /\ InitSession
    /\ writers = NoWriters
    /\ conversations \in [Conversations -> {Waiting(sc) : sc \in SessionScopes}]

NextShared ==
    \E c \in Conversations :
        \/ SessionInput(c)
        \/ SessionAsk(c)
        \/ SessionAct(c)
        \/ SessionTool(c)
        \/ SessionReturns(c)

SpecShared == InitShared /\ [][NextShared]_vars

\* A completion service that answers every call with tool requests.
CallLLMStub == call_llm(ToolRequests(gstate.messages))

NextLoop ==
    \/ EnterChat
    \/ ChatInput
    \/ CallLLMStub
    \/ take_action
    \/ RecursionError

\* invoke blocks on each node in turn: a step that can be taken is taken.
SpecLoop ==
    InitChat /\ [][NextLoop]_vars /\ WF_vars(CallLLMStub \/ take_action \/ RecursionError)

\* A study session at the navigation prompt, over an Index that is empty or holds
\* the library.
InitNav ==
    /\ Alone
    /\ rawData = SessionRaw
    /\ index \in {<<>>, SessionIndex}
    /\ ingestLog = <<>>
    /\ lastRun = NoRun
    /\ runs = 0
    /\ InitSession

NextNav ==
    \/ ListCommand
    \/ UseSemester
    \/ OpenSubject
    \/ SelectBook
    \/ ClearScope
    \/ UnknownCommand

SpecNav == InitNav /\ [][NextNav]_vars

\* A study session that only sets its scope, and moves between the semesters and
\* subjects of the library.
SwitchArgs == {"Y3S2", "Y2S1", "Finance", "TextbookA"}
SwitchUse == use_semester(Commands(SwitchArgs))
SwitchOpen == open_subject(Commands(SwitchArgs))
SwitchSelect == select_book(Commands(SwitchArgs))

NextSwitch == SwitchUse \/ SwitchOpen \/ SwitchSelect \/ ClearScope

SpecSwitch == InitNav /\ [][NextSwitch]_vars

\* A study session in which navigation commands, "ask" and "chat" follow one
\* another.  The names typed after use / open / select are those of ScopeArgs,
\* and the questions are ones the completion service answers at once.
ScopeArgs == {"", "y3s2", "TextbookA"}

ScopeUse == use_semester(Commands(ScopeArgs))
ScopeOpen == open_subject(Commands(ScopeArgs))
ScopeSelect == select_book(Commands(ScopeArgs))

InitScope ==
    /\ Alone
    /\ rawData = SessionRaw
    /\ index = SessionIndex
    /\ ingestLog = <<>>
    /\ lastRun = NoRun
    /\ runs = 0
    /\ InitSession

\* A completion service that answers every question without a tool.
CallLLMAnswers == call_llm({AIMessage(<<"answer">>, <<>>)})

NextScope ==
    \/ ListCommand
    \/ ScopeUse
    \/ ScopeOpen
    \/ ScopeSelect
    \/ ClearScope
    \/ UnknownCommand
    \/ AskQuestion
    \/ EnterChat
    \/ ExitChat
    \/ ChatInput
    \/ CallLLMAnswers
    \/ QueryAborts
    \/ InvokeReturns

SpecScope == InitScope /\ [][NextScope]_vars

\* A long-lived process holds one Catalog while ingestion runs commit to the
\* Index it reads.
InitCatalog ==
    /\ Alone
    /\ rawData = SessionRaw
    /\ index = <<>>
    /\ ingestLog = <<>>
    /\ lastRun = NoRun
    /\ runs = 0
    /\ InitSession

NextCatalog ==
    \/ IngestNew
    \/ IngestForce
    \/ PageIngestNew
    \/ PageIngestForce
    \/ ListSemesters
    \/ ListSubjects
    \/ ListBooks

SpecCatalog == InitCatalog /\ [][NextCatalog]_vars

(***************************************************************************)
(* Properties of the ingestion pipeline (SpecIngest).                      *)
(***************************************************************************)
\* An ingest_all(force_reingest=False) in which every Index call answered.
CleanRun(r) == ~r.force /\ r.readOk /\ r.ended = "complete"

\* C1: an ingest_all(force_reingest=False) that follows a complete
\* ingest_all(force_reingest=False) over the same content source, with the
\* Index answering every call of both, leaves the Index as the first run left it.
C1_IdempotentIngestion ==
    [][(runs' = runs + 1 /\ CleanRun(lastRun) /\ CleanRun(lastRun'))
            => index' = index]_vars

\* The unit a chunk was cut from: the one scanned at the path its pages were
\* loaded from.
UnitOf(chunk) == BookInfo(SubSeq(chunk.source, 2, Len(chunk.source)))

CarriesUnitFields(chunk) ==
    /\ {"semester", "subject", "book_id", "book_title", "source_path"} \subseteq DOMAIN chunk
    /\ chunk.semester = UnitOf(chunk).semester
    /\ chunk.subject = UnitOf(chunk).subject
    /\ chunk.book_id = UnitOf(chunk).book_id
    /\ chunk.book_title = UnitOf(chunk).book_title
    /\ chunk.source_path = UnitOf(chunk).source_path

\* C9: every chunk a run accumulates, and every item of the Index, carries the
\* semester, subject, book_id, book_title and source_path of the unit it was cut
\* from.
C9_ChunkTraceability ==
    /\ \A i \in DOMAIN index : CarriesUnitFields(index[i])
    /\ \A i \in DOMAIN lastRun.added : CarriesUnitFields(lastRun.added[i])

\* A run has written the chunks of two units of different books.
C9_Witness ==
    /\ lastRun.ended = "complete"
    /\ \E i, j \in DOMAIN lastRun.added : lastRun.added[i].book_id # lastRun.added[j].book_id
    /\ Len(index) >= Len(lastRun.added)

(***************************************************************************)
(* Properties of the retriever tool and the agent loop (SpecChat,          *)
(* SpecLoop).                                                              *)
(***************************************************************************)
Running == pc \in {"llm", "retriever_agent"}

\* C2: with a completion service that requests tools at every call, a query never
\* runs more super-steps than the recursion limit, never returns a result, and
\* ends with GraphRecursionError.
C2_LoopTerminatesAtCap ==
    /\ [](steps <= RecursionLimit)
    /\ [](pc # "end")
    /\ Running ~> (pc = "crashed" /\ lastQuery[1].ended = "GraphRecursionError")

\* A query has been stopped at the cap.
C2_Witness ==
    /\ pc = "crashed"
    /\ lastQuery[1].ended = "GraphRecursionError"
    /\ steps = RecursionLimit
    /\ Len(Last(gstate.messages).tool_calls) > 0

\* The items a filter may meet: every combination of stored values.
ItemUniverse == [semester : Semesters, subject : {"ML", "Finance"},
                 book_id : {"TextbookA", "TextbookB", "report1", "textbooka"}]

\* An item satisfies every active dimension of a scope.
SatisfiesScope(semester, subject, books, item) ==
    /\ semester # None => item.semester = semester
    /\ subject # None => item.subject = subject
    /\ books # <<>> => item.book_id \in Range(books)

NoActiveDimension(s) == s.semester = None /\ s.subject = None /\ s.books = <<>>

\* C3: the filter of every search admits an item exactly when the item satisfies
\* every active dimension of the conversation's scope, and is no filter at all
\* when no dimension is active.
C3_FilterIsConjunction ==
    \A s \in searches :
        /\ \A item \in ItemUniverse :
            WhereMatches(s.where, item) <=> SatisfiesScope(s.semester, s.subject, s.books, item)
        /\ NoActiveDimension(s) <=> s.where.op = "none"

\* A search under three active dimensions found the unit that satisfies all three
\* and left out an indexed unit of the same semester.
C3_Witness ==
    \E s \in searches :
        /\ s.semester # None /\ s.subject # None /\ s.books # <<>>
        /\ s.answer = "ok" /\ s.found > 0
        /\ \E i \in DOMAIN index :
            index[i].semester = s.semester /\ ~WhereMatches(s.where, index[i])

\* The tool-result message that answers a request.
ResultsFor(msgs, id) == {i \in DOMAIN msgs : msgs[i].type = "tool" /\ msgs[i].tool_call_id = id}

\* C4: a search the Index failed is answered with the error text and never with
\* the no-results text; a search that found nothing is answered with the
\* no-results text and never with the error text; the message appended for the
\* request carries that text.
C4_EmptyAndErrorDistinct ==
    \A s \in searches :
        /\ s.answer # "ok" =>
            s.content # NoResultsText /\ Head(s.content) = ERROR_PREFIX
        /\ (s.answer = "ok" /\ s.found = 0) =>
            s.content = NoResultsText /\ Head(s.content) # ERROR_PREFIX
        /\ \A i \in ResultsFor(gstate.messages, s.request) :
            gstate.messages[i].content = s.content

\* One step has made a search that failed and a search that found nothing.
C4_Witness ==
    \E s1, s2 \in searches :
        /\ s1.answer # "ok"
        /\ s2.answer = "ok" /\ s2.found = 0
        /\ ResultsFor(gstate.messages, s1.request) # {}
        /\ ResultsFor(gstate.messages, s2.request) # {}

\* A step of the "retriever_agent" node.
ActStep == pc = "retriever_agent" /\ pc' = "llm"
Requests == Last(gstate.messages).tool_calls
Appended == SubSeq(gstate'.messages, Len(gstate.messages) + 1, Len(gstate'.messages))

\* C5: a take_action step keeps the history and appends one tool-result message
\* per request of the last assistant message, the i-th carrying the id of the
\* i-th request.
C5_OneResultPerRequest ==
    [][ActStep =>
        /\ SubSeq(gstate'.messages, 1, Len(gstate.messages)) = gstate.messages
        /\ Len(Appended) = Len(Requests)
        /\ \A i \in DOMAIN Requests :
            Appended[i].type = "tool" /\ Appended[i].tool_call_id = Requests[i].id]_vars

\* A step has answered two requests.
C5_Witness ==
    /\ pc = "llm"
    /\ Len(gstate.messages) >= 4
    /\ Last(gstate.messages).type = "tool"
    /\ gstate.messages[Len(gstate.messages) - 1].type = "tool"
    /\ Len(gstate.messages[Len(gstate.messages) - 2].tool_calls) = 2

IsFinalAnswer(m) == m.type = "ai" /\ m.tool_calls = <<>>

\* C6: an "llm" step appends one assistant message and goes to "retriever_agent"
\* exactly when that message requests tools, else the invoke returns; a
\* "retriever_agent" step goes back to "llm"; the message a query returns with,
\* and the last message stored after a chat query, is an assistant message
\* without tool requests.
C6_AskActAlternation ==
    /\ [][/\ (pc = "llm" /\ pc' \in {"retriever_agent", "end"}) =>
                /\ Len(gstate'.messages) = Len(gstate.messages) + 1
                /\ Last(gstate'.messages).type = "ai"
                /\ pc' = "retriever_agent" <=> Len(Last(gstate'.messages).tool_calls) > 0
          /\ (pc = "retriever_agent" /\ pc' \notin {"retriever_agent", "crashed"}) =>
                pc' = "llm"
          /\ (pc = "end" /\ pc' # "end") =>
                /\ IsFinalAnswer(Last(gstate.messages))
                /\ caller = "chat" => messages' = gstate.messages]_vars
    /\ []((pc = "chat" /\ lastQuery # <<>>) => IsFinalAnswer(Last(messages)))

\* A chat query has ended after a round of tools.
C6_Witness ==
    /\ pc = "chat"
    /\ lastQuery # <<>>
    /\ lastQuery[1].ended = "answered"
    /\ \E i \in DOMAIN messages : messages[i].type = "tool"

UnknownToolText(name) == <<"Error: Tool '", name, "' does not exist.">>

\* C7: a take_action step whose requests name a tool outside the tool map
\* appends, for each such request, a message with its id that reports the name,
\* answers every other request with the retriever's text, and goes back to
\* "llm"; and such a step can always be taken.
C7_UnknownToolHandled ==
    /\ [][ActStep =>
            \A i \in DOMAIN Requests :
                IF Requests[i].name \notin tools_dict
                THEN Appended[i] = ToolMessage(Requests[i].id, Requests[i].name,
                                               UnknownToolText(Requests[i].name))
                ELSE /\ Appended[i].tool_call_id = Requests[i].id
                     /\ \E s \in searches' :
                            s.request = Requests[i].id /\ s.content = Appended[i].content
                     /\ Head(Appended[i].content) # "Error: Tool '"]_vars
    /\ []((pc = "retriever_agent" /\ WithinRecursionLimit(steps)) => ENABLED take_action)

\* A step has reported an unknown tool and run the search requested with it.
C7_Witness ==
    /\ pc = "llm"
    /\ Len(gstate.messages) >= 4
    /\ gstate.messages[Len(gstate.messages) - 1].content = UnknownToolText("web_search")
    /\ Last(gstate.messages).type = "tool"
    /\ Last(gstate.messages).name = RETRIEVER
    /\ \E s \in searches : s.request = Last(gstate.messages).tool_call_id /\ s.found > 0

\* Every assistant message that requests tools is followed by the results of its
\* requests.
NoDanglingRequest(msgs) ==
    \A i \in DOMAIN msgs :
        \A k \in DOMAIN msgs[i].tool_calls :
            /\ i + k \in DOMAIN msgs
            /\ msgs[i + k].type = "tool"
            /\ msgs[i + k].tool_call_id = msgs[i].tool_calls[k].id

\* A run of complete ASK/ACT pairs: requests and their results, nothing else.
OnlyCompletePairs(msgs) ==
    /\ NoDanglingRequest(msgs)
    /\ \A i \in DOMAIN msgs :
        \/ (msgs[i].type = "ai" /\ msgs[i].tool_calls # <<>>)
        \/ msgs[i].type = "tool"

\* C8: the stored messages never hold a tool request without its results, and
\* after a query aborted they are the messages stored before the query, followed
\* by nothing or by complete ASK/ACT pairs only.
C8_AbortLeavesWholePairs ==
    /\ NoDanglingRequest(messages)
    /\ pc = "crashed" =>
        /\ SubSeq(messages, 1, Len(lastQuery[1].before)) = lastQuery[1].before
        /\ OnlyCompletePairs(SubSeq(messages, Len(lastQuery[1].before) + 1, Len(messages)))

(***************************************************************************)
(* Properties of the navigation commands (SpecNav).                        *)
(***************************************************************************)
\* The stored values of a field among the catalog's entries of a semester (of
\* every semester when none is given) that equal a typed name ignoring case.
StoredMatches(metadata, semester, field, typed) ==
    {metadata[i][field] : i \in
        {j \in DOMAIN metadata :
            /\ semester # None => metadata[j].semester = semester
            /\ Lower(metadata[j][field]) = Lower(typed)}}

\* C10: after "use <name>" the active semester, and after "open <name>" the active
\* subject, is a stored value that equals the typed name ignoring case, whenever
\* the catalog listed such a value (for "open": among the entries of the active
\* semester).
C10_CaseInsensitiveResolution ==
    /\ (lastCommand.cmd = "use"
            /\ StoredMatches(lastCommand.metadata, None, "semester", lastCommand.typed) # {})
        => active_semester \in
                StoredMatches(lastCommand.metadata, None, "semester", lastCommand.typed)
    /\ (lastCommand.cmd = "open"
            /\ StoredMatches(lastCommand.metadata, lastCommand.semester_before, "subject",
                             lastCommand.typed) # {})
        => active_subject \in
                StoredMatches(lastCommand.metadata, lastCommand.semester_before, "subject",
                              lastCommand.typed)

\* "use y3s2" has set the active semester to the stored "Y3S2".
C10_Witness ==
    /\ lastCommand.cmd = "use"
    /\ lastCommand.typed = "y3s2"
    /\ active_semester = "Y3S2"
    /\ active_semester # lastCommand.typed

\* The scope value a "use" / "open" command has set.
ScopeSet == IF lastCommand.cmd = "use" THEN active_semester ELSE active_subject

\* The stored values the last "use" / "open" could have matched.
CommandMatches ==
    IF lastCommand.cmd = "use"
    THEN StoredMatches(lastCommand.metadata, None, "semester", lastCommand.typed)
    ELSE StoredMatches(lastCommand.metadata, lastCommand.semester_before, "subject",
                       lastCommand.typed)

\* C11: after "use <name>" / "open <name>" with no stored value equal to the typed
\* name ignoring case, the scope holds the name exactly as it was typed and the
\* confirmation printed is the one for an unmatched name.
C11_UnmatchedPassesThrough ==
    (lastCommand.cmd \in {"use", "open"} /\ CommandMatches = {})
        => /\ ScopeSet = lastCommand.typed
           /\ lastCommand.printed = "Active set to"

(***************************************************************************)
(* Properties of an ingestion run (SpecIngest).                            *)
(***************************************************************************)
\* The candidates the scan of the last run found.
Candidates == {b.source_path : b \in Range(LibraryBooks(scan_library(rawData)))}

\* A source path is present in an Index.
InIndex(idx, path) == \E i \in DOMAIN idx : idx[i].source_path = path

\* The last run got as far as its loop over the candidates.
ReachedLoop == lastRun.ended \in {"complete", "log_failed", "write_failed", "nothing_to_do"}

\* C12: in a run that read the Index, a candidate is skipped exactly when the run
\* is not forced and the candidate's source path was in the Index when the run
\* started, and every candidate that is not skipped is handed to ingest_pdf.
C12_SkipIffPresent ==
    (ReachedLoop /\ lastRun.readOk) =>
        \A path \in Candidates :
            /\ path \in Range(lastRun.skipped)
                <=> (~lastRun.force /\ InIndex(lastRun.before, path))
            /\ path \notin Range(lastRun.skipped) => path \in Range(lastRun.loaded)

\* The run wrote what it had accumulated.
Committed == lastRun.ended \in {"complete", "log_failed"}

\* The chunks of a candidate are among the chunks a run added.
AddedFor(path) ==
    \E i \in DOMAIN lastRun.added :
        /\ lastRun.added[i].source_path = path
        /\ lastRun.added[i].n = rawData.pdfs[path].chunks

\* C13: in a run in which the load of a candidate failed, the failure was printed
\* for that candidate, every candidate that was not skipped was still handed to
\* ingest_pdf, and when the write succeeded the Index received the chunks of every
\* such candidate that yields any.
C13_LoadFailureNotFatal ==
    (ReachedLoop /\ lastRun.failed # <<>>) =>
        /\ \A path \in Candidates \ Range(lastRun.skipped) :
            /\ path \in Range(lastRun.loaded)
            /\ rawData.pdfs[path].kind = "corrupt" <=> path \in Range(lastRun.failed)
            /\ (Committed /\ rawData.pdfs[path].chunks > 0) => AddedFor(path)
        /\ Committed => index = lastRun.before \o lastRun.added

\* A run went on after a failed load and committed the chunks of a later candidate.
C13_Witness ==
    /\ lastRun.ended = "complete"
    /\ \E i, j \in DOMAIN lastRun.loaded :
        /\ i < j
        /\ lastRun.loaded[i] \in Range(lastRun.failed)
        /\ AddedFor(lastRun.loaded[j])
        /\ InIndex(index, lastRun.loaded[j])

\* C14: a run whose batch write failed called add_documents once, showed no
\* completion summary, and left the log file as it was before the run.
C14_WriteFailureFailsRun ==
    lastRun.ended = "write_failed" =>
        /\ lastRun.writes = 1
        /\ lastRun.completion = <<>>
        /\ ingestLog = lastRun.logBefore

\* A write failed in a run that had chunks to write, after an earlier run had
\* left its summary in the log.
C14_Witness ==
    /\ lastRun.ended = "write_failed"
    /\ lastRun.loaded # <<>>
    /\ lastRun.logBefore # <<>>
    /\ ingestLog = lastRun.logBefore

\* C15: the summary in the log after a run that wrote it counts, as
\* books_processed, the candidates whose chunks the run added; as books_skipped,
\* the candidates the run skipped; as total_chunks, the chunks the run added.
C15_SummaryCounts ==
    lastRun.ended = "complete" =>
        /\ ingestLog # <<>>
        /\ ingestLog[1].books_processed = Len(lastRun.added)
        /\ ingestLog[1].books_skipped = Len(lastRun.skipped)
        /\ ingestLog[1].total_chunks = TotalChunks(lastRun.added)

\* The library with every unreadable document replaced by a readable, empty one.
WithoutFailures(raw) ==
    [raw EXCEPT !.pdfs = [p \in PdfPaths |->
        IF raw.pdfs[p].kind = "corrupt" THEN Readable(0) ELSE raw.pdfs[p]]]

\* C16: the summary ingest_all persists for a run in which loads failed records
\* them: it is not the summary the same run persists when those documents load
\* and merely yield no chunks.
C16_FailuresInSummary ==
    (lastRun.via = "ingest_all" /\ lastRun.ended = "complete" /\ lastRun.failed # <<>>) =>
        ingestLog[1] #
            IngestAllResult(WithoutFailures(rawData), lastRun.before, lastRun.logBefore,
                            lastRun.force, TRUE, lastRun.readOk, TRUE, TRUE).log[1]

\* The chunks an Index holds for a source path.
ChunksOf(idx, path) == TotalChunks(SelectSeq(idx, LAMBDA g : g.source_path = path))

\* C17: after a forced run that committed, the Index holds for every candidate
\* exactly the chunks its document yields: one copy.
C17_ForcedRunOverwrites ==
    (lastRun.force /\ Committed) =>
        \A path \in Candidates :
            rawData.pdfs[path].kind = "ok" =>
                ChunksOf(index, path) = rawData.pdfs[path].chunks

(***************************************************************************)
(* Properties of the Catalog (SpecCatalog).                                *)
(***************************************************************************)
\* The Catalog holds a snapshot that is no longer the metadata of the Index.
Stale == cache # <<>> /\ cache[1] # index

\* A call of a method of the Catalog.
CatalogStep == ListSemesters \/ ListSubjects \/ ListBooks

\* C18: whenever the Catalog's snapshot is behind the Index, some operation of the
\* Catalog drops the snapshot or brings it up to date.
C18_InvalidationAvailable ==
    Stale => ENABLED (CatalogStep /\ (cache' = <<>> \/ cache'[1] = index))

\* C19: once the Catalog holds a snapshot, every call of a list method leaves the
\* snapshot as it is, does not read the Index, and returns what the method
\* computes from the snapshot.
C19_FetchedOnce ==
    [][(cache # <<>> /\ lastListing' # lastListing) =>
        /\ cache' = cache
        /\ ~lastListing'.read
        /\ lastListing'.result =
                Listing(lastListing'.op, cache[1], lastListing'.semester,
                        lastListing'.subject)]_vars

\* A list method answered from a snapshot taken before a commit: its result is
\* not what the Index would give.
C19_Witness ==
    /\ Stale
    /\ lastListing.op = "list_books"
    /\ lastListing.snapshot = cache
    /\ ~lastListing.read
    /\ lastListing.result #
            Listing(lastListing.op, index, lastListing.semester, lastListing.subject)

\* C20: a call of a list method in which the read of the Index failed returned
\* the empty list and raised nothing.
C20_ReadFailureGivesEmpty ==
    (lastListing.read /\ ~lastListing.readOk) =>
        /\ lastListing.result = <<>>
        /\ ~lastListing.raised
        /\ cache = <<>>

\* list_books was called over an Index that holds books, the read failed, and the
\* call returned the empty list.
C20_Witness ==
    /\ lastListing.op = "list_books"
    /\ lastListing.read /\ ~lastListing.readOk
    /\ lastListing.result = <<>>
    /\ list_books(index, lastListing.semester, lastListing.subject) # <<>>

\* The items of a metadata list that a semester and a subject filter keep, each
\* filter compared ignoring case and left out when it is None.
MatchingItems(metadata, semester, subject) ==
    {i \in DOMAIN metadata :
        /\ semester # None => Lower(metadata[i].semester) = Lower(semester)
        /\ subject # None => Lower(metadata[i].subject) = Lower(subject)}

\* Position of a string in the order sorted() uses.
Rank(x) == CHOOSE i \in DOMAIN StringOrder : StringOrder[i] = x

\* C21: what list_books returned holds the id of every item its filters keep and
\* no other id, in strictly increasing order of id, and each descriptor is taken
\* from an item that has the id.
C21_ListBooksDeduplicated ==
    (lastListing.op = "list_books" /\ ~lastListing.raised) =>
        LET r == lastListing.result
            md == lastListing.metadata
            kept == MatchingItems(md, lastListing.semester, lastListing.subject)
        IN  /\ {r[k].book_id : k \in DOMAIN r} = {md[i].book_id : i \in kept}
            /\ \A k, l \in DOMAIN r : k < l => Rank(r[k].book_id) < Rank(r[l].book_id)
            /\ \A k \in DOMAIN r : \E i \in kept :
                /\ md[i].book_id = r[k].book_id
                /\ md[i].book_title = r[k].book_title
                /\ md[i].subject = r[k].subject
                /\ md[i].semester = r[k].semester

\* list_books("y2s1") has returned the one book of semester "Y2S1", whose chunks
\* two runs had written.
C21_Witness ==
    /\ lastListing.op = "list_books"
    /\ lastListing.semester = "y2s1"
    /\ Len(lastListing.result) = 1
    /\ lastListing.result[1].semester = "Y2S1"
    /\ Cardinality(MatchingItems(lastListing.metadata, "y2s1", lastListing.subject)) >= 2

(***************************************************************************)
(* Properties of the scope and the conversation (SpecScope).               *)
(***************************************************************************)
EmptyScope == active_semester = None /\ active_subject = None /\ active_books = <<>>

\* C22: the scope starts empty; a step that changes it is a navigation command
\* use, open, select or clear, and changes the one dimension the command names
\* (clear: all three); a navigation command leaves the messages as they are; and
\* after "clear" the scope is empty.
C22_ScopeFrame ==
    /\ EmptyScope
    /\ [][/\ scopeVars' # scopeVars =>
                /\ pc = "nav" /\ pc' = "nav"
                /\ lastCommand'.cmd \in {"use", "open", "select", "clear"}
                /\ lastCommand'.cmd = "use" => UNCHANGED <<active_subject, active_books>>
                /\ lastCommand'.cmd = "open" => UNCHANGED <<active_semester, active_books>>
                /\ lastCommand'.cmd = "select" => UNCHANGED <<active_semester, active_subject>>
          /\ lastCommand' # lastCommand => messages' = messages]_vars
    /\ [](lastCommand.cmd = "clear" => EmptyScope)

\* "clear" has emptied the scope of a session that holds the messages of a chat.
C22_Witness ==
    /\ lastCommand.cmd = "clear"
    /\ EmptyScope
    /\ messages # <<>>
    /\ pc = "nav"

\* One sequence starts with another.
IsPrefix(a, b) == Len(a) <= Len(b) /\ SubSeq(b, 1, Len(a)) = a

\* C23: while a chat query runs, each step of the graph keeps the messages it
\* started from and adds its own at the end; when the query returns, the stored
\* messages are those stored before the query, then the user's message, then the
\* assistant and tool messages of the query, as the graph holds them.
C23_MessagesGrow ==
    /\ [][/\ (pc \in {"llm", "retriever_agent"} /\ pc' \in {"llm", "retriever_agent", "end"}) =>
                IsPrefix(gstate.messages, gstate'.messages)
          /\ (pc = "end" /\ pc' = "chat") =>
                /\ IsPrefix(lastQuery[1].before \o <<HumanMessage(QUESTION)>>, messages')
                /\ messages' = gstate.messages
                /\ \A i \in (Len(lastQuery[1].before) + 2)..Len(messages') :
                        messages'[i].type \in {"ai", "tool"}]_vars
    /\ []((pc = "chat" /\ lastQuery # <<>>) =>
            IsPrefix(lastQuery[1].before \o <<HumanMessage(QUESTION)>>, messages))

\* A second chat query, which used the tool, has been stored after the first.
C23_Witness ==
    /\ pc = "chat"
    /\ lastQuery # <<>>
    /\ lastQuery[1].ended = "answered"
    /\ lastQuery[1].before # <<>>
    /\ \E i \in (Len(lastQuery[1].before) + 2)..Len(messages) : messages[i].type = "tool"

\* The session's history as the messages a request would carry.
AsMessages(entries) ==
    [i \in DOMAIN entries |->
        IF entries[i].role = "user" THEN HumanMessage(entries[i].content)
        ELSE AIMessage(entries[i].content, <<>>)]

\* The conversation as its session holds it when a step of a query runs.
History ==
    CASE caller = "chat" -> messages
      [] caller = "ask" -> messages \o <<HumanMessage(QUESTION)>>
      [] caller = "streamlit" -> AsMessages(messages)

AskStep == pc = "llm" /\ pc' \in {"retriever_agent", "end"}

\* C24: each step of the llm node makes one request to the completion service,
\* which is the system prompt with the description of the conversation's scope
\* followed by the conversation's messages so far in order (the session's
\* history, then what this query has produced), and adds exactly one assistant
\* message to the state.
C24_AskSendsFullHistory ==
    [][AskStep =>
        /\ Len(lastQuery'[1].sent) = Len(lastQuery[1].sent) + 1
        /\ LET request == Last(lastQuery'[1].sent)
           IN  /\ request[1] = SystemMessage(SYSTEM_PROMPT(get_scope_description(TheState)))
               /\ Tail(request) = gstate.messages
               /\ IsPrefix(History, Tail(request))
        /\ Len(gstate'.messages) = Len(gstate.messages) + 1
        /\ IsPrefix(gstate.messages, gstate'.messages)
        /\ Last(gstate'.messages).type = "ai"]_vars

\* The description a system prompt carries: what follows "Current scope: ".
DescriptionIn(request) == SubSeq(request[1].content, 3, Len(request[1].content))

\* The value a description gives after a label, as a sequence: empty when the
\* label does not occur.
NamedValue(description, label) ==
    IF \E i \in DOMAIN description : description[i] = label
    THEN LET i == CHOOSE j \in DOMAIN description : description[j] = label
         IN  <<description[i + 1]>>
    ELSE <<>>

\* The books a description lists: the pieces after "Book: " / "Books: ", which
\* ", " separates.
NamedBooks(description) ==
    IF \E i \in DOMAIN description : description[i] \in {"Book: ", "Books: "}
    THEN LET i == CHOOSE j \in DOMAIN description : description[j] \in {"Book: ", "Books: "}
         IN  [k \in 1..((Len(description) - i + 1) \div 2) |-> description[i + 2 * k - 1]]
    ELSE <<>>

\* The value a filter requires of a field, as a sequence: empty when the filter
\* has no condition on the field.
RequiredValue(where, field) ==
    IF \E i \in DOMAIN where.conds : where.conds[i].field = field
    THEN LET i == CHOOSE j \in DOMAIN where.conds : where.conds[j].field = field
         IN  where.conds[i].value
    ELSE <<>>

\* C28: for each search of a query, the description in the system prompt of the
\* request that led to it names a semester, a subject or books exactly when the
\* search's filter has a condition on that field, with the same value(s); the
\* description is 'All materials (no active scope)' exactly when the search has
\* no filter.
C28_DescriptionMatchesFilter ==
    \A s \in searches :
        LET description == DescriptionIn(Last(lastQuery[1].sent))
        IN  /\ NamedValue(description, "Semester: ") = RequiredValue(s.where, "semester")
            /\ NamedValue(description, "Subject: ") = RequiredValue(s.where, "subject")
            /\ NamedBooks(description) = RequiredValue(s.where, "book_id")
            /\ (description = <<"All materials (no active scope)">>) <=> (s.where.op = "none")

\* A search has run under a semester and one book, which the description names.
C28_Witness ==
    \E s \in searches :
        /\ Len(s.books) = 1
        /\ s.semester # None
        /\ s.subject = None
        /\ DescriptionIn(Last(lastQuery[1].sent)) =
                <<"Semester: ", s.semester, " | ", "Book: ", s.books[1]>>

\* The groups of the Index.
IndexGroups == Range(index)

\* C29: whenever a semester is active and the active subject is one the Index
\* holds, some indexed item of that subject is of the active semester (names
\* compared ignoring case).
C29_SubjectWithinSemester ==
    (/\ active_semester # None
     /\ \E g \in IndexGroups : g.subject = active_subject)
    => \E g \in IndexGroups :
            /\ g.subject = active_subject
            /\ Lower(g.semester) = Lower(active_semester)

\* The last select named a unit of the Index, ignoring case.
SelectedUnits ==
    {g \in IndexGroups : lastCommand.cmd = "select" /\ Lower(g.book_id) = Lower(lastCommand.typed)}

\* C30: after a select whose typed name is, ignoring case, the id of an indexed
\* unit, the book_id condition of the filter built from the session's scope
\* holds of that unit's chunks.
C30_SelectedUnitMatches ==
    \A g \in SelectedUnits :
        \E i \in DOMAIN filter_conditions(TheState) :
            /\ filter_conditions(TheState)[i].field = "book_id"
            /\ ConditionHolds(filter_conditions(TheState)[i], g)

\* C26: every filter a session's tool calls have built is the filter of that
\* session's own scope, whatever the other sessions do in between.
C26_ToolUsesOwnScope ==
    \A c \in Conversations :
        \A i \in DOMAIN conversations[c].filters :
            conversations[c].filters[i] = where_filter(conversations[c].scope)

\* The items of the Index cut from one source path.
WrittenFor(path) == {j \in DOMAIN index : index[j].source_path = path}

\* C27: when ingest_all(force_reingest=False) runs side by side and every run's
\* read of the Index answers, the Index never holds the chunks of one source
\* path twice.
C27_WrittenAtMostOnce ==
    (\A w \in Writers : writers[w].readOk) =>
        \A path \in PdfPaths : Cardinality(WrittenFor(path)) <= 1

====
